---------------------------- MODULE Spec2Model ----------------------------
(***************************************************************************)
(* Model of the orchestrator relay service (src/src/orchestrator).         *)
(*                                                                         *)
(* Text is modelled as a sequence of tokens.  A token is one character     *)
(* (" ", "x", "\n", "\r") or one of the fixed words the code compares      *)
(* whole lines against (the relay header and the two sentinels) or         *)
(* prepends (the agents' templates).  Equality of two Python strings is    *)
(* equality of the token sequences.                                        *)
(***************************************************************************)
EXTENDS Integers, Sequences, FiniteSets, TLC

(***************************************************************************)
(* Bounds of the model.                                                    *)
(***************************************************************************)
MaxLines == 4
MaxMessages == 2

----------------------------------------------------------------------------
(***************************************************************************)
(* router.py: constants of the envelope.                                   *)
(***************************************************************************)
\* The header's arrow is written "->" here; it is one token either way.
ORCHESTRATOR_HEADER == "[ORCHESTRATOR -> A.C.E]"
USER_TEXT_BEGIN == "USER_TEXT_BEGIN"
USER_TEXT_END == "USER_TEXT_END"

LF == "\n"
CR == "\r"
SP == " "
TXT == "x"

Tokens == {SP, TXT, LF, CR, ORCHESTRATOR_HEADER, USER_TEXT_BEGIN, USER_TEXT_END}

\* The characters str.strip() removes (those that occur in the model).
IsWhitespace(t) == t \in {SP, LF, CR}

----------------------------------------------------------------------------
(***************************************************************************)
(* String primitives of Python used by _extract_orchestrated_text.         *)
(***************************************************************************)

\* s.replace("\r\n", "\n"): left to right, non-overlapping.
RECURSIVE ReplaceCRLF(_)
ReplaceCRLF(s) ==
    IF s = <<>> THEN <<>>
    ELSE IF Len(s) >= 2 /\ s[1] = CR /\ s[2] = LF
         THEN <<LF>> \o ReplaceCRLF(SubSeq(s, 3, Len(s)))
         ELSE <<s[1]>> \o ReplaceCRLF(Tail(s))

\* s.replace("\r", "\n")
ReplaceCR(s) == [i \in 1..Len(s) |-> IF s[i] = CR THEN LF ELSE s[i]]

\* content.replace("\r\n", "\n").replace("\r", "\n")
Normalize(content) == ReplaceCR(ReplaceCRLF(content))

\* s.split("\n"): always at least one line; the lines hold no "\n".
RECURSIVE SplitLines(_)
SplitLines(s) ==
    IF s = <<>> THEN << <<>> >>
    ELSE LET rest == SplitLines(Tail(s))
         IN  IF s[1] = LF
             THEN << <<>> >> \o rest
             ELSE << <<s[1]>> \o rest[1] >> \o Tail(rest)

RECURSIVE LStrip(_)
LStrip(s) == IF s # <<>> /\ IsWhitespace(s[1]) THEN LStrip(Tail(s)) ELSE s

RECURSIVE RStrip(_)
RStrip(s) ==
    IF s # <<>> /\ IsWhitespace(s[Len(s)])
    THEN RStrip(SubSeq(s, 1, Len(s) - 1))
    ELSE s

\* line.strip()
Strip(s) == RStrip(LStrip(s))

\* s.rstrip("\n"): only "\n" is removed.
RECURSIVE RStripNewlines(_)
RStripNewlines(s) ==
    IF s # <<>> /\ s[Len(s)] = LF
    THEN RStripNewlines(SubSeq(s, 1, Len(s) - 1))
    ELSE s

\* sep.join(parts)
RECURSIVE Join(_, _)
Join(sep, parts) ==
    IF parts = <<>> THEN <<>>
    ELSE IF Len(parts) = 1 THEN parts[1]
    ELSE parts[1] \o sep \o Join(sep, Tail(parts))

----------------------------------------------------------------------------
(***************************************************************************)
(* router.py: _extract_orchestrated_text.  Indices are Python's (0-based): *)
(* Python's lines[k] is lines[k + 1] here.  None is written -1.            *)
(***************************************************************************)

\* next((line for line in lines if line.strip()), "")
RECURSIVE FirstNonBlank(_)
FirstNonBlank(lines) ==
    IF lines = <<>> THEN <<>>
    ELSE IF Strip(lines[1]) # <<>> THEN lines[1]
    ELSE FirstNonBlank(Tail(lines))

\* first_non_blank != _ORCHESTRATOR_HEADER, negated: the line is compared as
\* it stands, not stripped.
IsHeaderLine(first_non_blank) == first_non_blank = <<ORCHESTRATOR_HEADER>>

\* The loop over enumerate(lines): index + 1 of the first line whose stripped
\* content is the begin sentinel, or None.
RECURSIVE BeginIndexFrom(_, _)
BeginIndexFrom(lines, index) ==
    IF index >= Len(lines) THEN -1
    ELSE IF Strip(lines[index + 1]) = <<USER_TEXT_BEGIN>> THEN index + 1
    ELSE BeginIndexFrom(lines, index + 1)

BeginIndex(lines) == BeginIndexFrom(lines, 0)

\* The loop over range(begin_index, len(lines)): the first index whose
\* stripped line is the end sentinel, or None.
RECURSIVE EndIndex(_, _)
EndIndex(lines, index) ==
    IF index >= Len(lines) THEN -1
    ELSE IF Strip(lines[index + 1]) = <<USER_TEXT_END>> THEN index
    ELSE EndIndex(lines, index + 1)

\* Slice with the end sentinel's line included (lines[begin_index:end_index + 1]).
Slice_EndInclusive(lines, begin_index, end_index) ==
    SubSeq(lines, begin_index + 1, IF end_index = -1 THEN Len(lines) ELSE end_index + 1)

\* Slice with a missing end taken as the index -1 (lines[begin_index:-1]).
Slice_MissingEndAsLast(lines, begin_index, end_index) ==
    SubSeq(lines, begin_index + 1, IF end_index = -1 THEN Len(lines) - 1 ELSE end_index)

\* lines[begin_index:end_index], end_index None meaning the end of the list.
Slice(lines, begin_index, end_index) ==
    SubSeq(lines, begin_index + 1, IF end_index = -1 THEN Len(lines) ELSE end_index)

\* The function returning the normalized text where it should return its input.
ExtractOrchestratedText_ReturnsNormalized(content) ==
    LET lines == SplitLines(Normalize(content))
        begin_index == BeginIndex(lines)
    IN  IF ~IsHeaderLine(FirstNonBlank(lines)) THEN Normalize(content)
        ELSE IF begin_index = -1 THEN Normalize(content)
        ELSE RStripNewlines(
                 Join(<<LF>>, Slice(lines, begin_index, EndIndex(lines, begin_index))))

\* The function failing closed (empty payload) on a missing begin sentinel.
ExtractOrchestratedText_FailsClosed(content) ==
    LET lines == SplitLines(Normalize(content))
        begin_index == BeginIndex(lines)
    IN  IF ~IsHeaderLine(FirstNonBlank(lines)) THEN content
        ELSE IF begin_index = -1 THEN <<>>
        ELSE RStripNewlines(
                 Join(<<LF>>, Slice(lines, begin_index, EndIndex(lines, begin_index))))

ExtractOrchestratedText(content) ==
    LET lines == SplitLines(Normalize(content))
        begin_index == BeginIndex(lines)
    IN  IF ~IsHeaderLine(FirstNonBlank(lines)) THEN content
        ELSE IF begin_index = -1 THEN content
        ELSE RStripNewlines(
                 Join(<<LF>>, Slice(lines, begin_index, EndIndex(lines, begin_index))))

----------------------------------------------------------------------------
(***************************************************************************)
(* Inputs: every text of at most MaxLines lines, each line one of          *)
(* LineKinds, consecutive lines separated by one line terminator, the same *)
(* throughout a text ("\n", "\r" or "\r\n").                              *)
(***************************************************************************)
LineKinds ==
    { <<>>, <<SP>>, <<TXT>>,
      <<ORCHESTRATOR_HEADER>>, <<SP, ORCHESTRATOR_HEADER>>,
      <<USER_TEXT_BEGIN>>, <<SP, USER_TEXT_BEGIN, SP>>,
      <<USER_TEXT_END>>, <<USER_TEXT_END, SP>> }

Terminators == { <<LF>>, <<CR>>, <<CR, LF>> }

----------------------------------------------------------------------------
(***************************************************************************)
(* agents/*.py: the four stub agents.  Each template's fixed words are one *)
(* token.                                                                  *)
(***************************************************************************)
ResearchAgentRun(prompt) == <<"Researching: ">> \o prompt
PlanningAgentRun(research_summary) == <<"Plan based on: ">> \o research_summary
BuilderAgentRun(plan) == <<"Draft based on: ">> \o plan
ReviewerAgentRun(draft) == <<"Review of: ">> \o draft

----------------------------------------------------------------------------
(***************************************************************************)
(* router.py: POST /v1/chat, orchestrate_chat.                             *)
(***************************************************************************)
HTTP_200_OK == 200
HTTP_204_NO_CONTENT == 204
HTTP_400_BAD_REQUEST == 400

Roles == {"user", "assistant", "system"}

\* The message contents the chat requests are built from.
ChatContents ==
    { <<>>,
      <<SP>>,
      <<TXT>>,
      <<ORCHESTRATOR_HEADER, LF, USER_TEXT_BEGIN, LF, TXT, LF, USER_TEXT_END>>,
      <<ORCHESTRATOR_HEADER, LF, USER_TEXT_BEGIN, LF, USER_TEXT_END>>,
      <<ORCHESTRATOR_HEADER, LF, TXT, LF, USER_TEXT_END>>,
      <<SP, ORCHESTRATOR_HEADER, LF, USER_TEXT_BEGIN, LF, TXT, LF, USER_TEXT_END>> }

ConversationIds == {"conv-1", "conv-2"}

ChatMessage == [role : Roles, content : ChatContents]

\* _get_latest_user_message with the role test dropped: the last message.
LatestUserIndex_AnyRole(messages) == Len(messages)

\* _get_latest_user_message scanning messages instead of reversed(messages):
\* the first message of role user.
LatestUserIndex_First(messages) ==
    IF \E i \in 1..Len(messages) : messages[i].role = "user"
    THEN CHOOSE i \in 1..Len(messages) :
             /\ messages[i].role = "user"
             /\ \A j \in 1..(i - 1) : messages[j].role # "user"
    ELSE 0

\* _get_latest_user_message: the position of the first message of role user
\* in reversed(messages), 0 when the loop ends without returning.
LatestUserIndex(messages) ==
    IF \E i \in 1..Len(messages) : messages[i].role = "user"
    THEN CHOOSE i \in 1..Len(messages) :
             /\ messages[i].role = "user"
             /\ \A j \in (i + 1)..Len(messages) : messages[j].role # "user"
    ELSE 0

\* The test with the payload trimmed first: a blank payload counts as empty.
IsNoContent_Trimmed(extracted_content) == Strip(extracted_content) = <<>>

\* extracted_content == ""
IsNoContent(extracted_content) == extracted_content = <<>>

\* The reply joined by single newlines.
JoinReply_SingleNewline(outputs) == Join(<<LF>>, outputs)

\* "\n\n".join([research_summary, plan, draft, review])
JoinReply(outputs) == Join(<<LF, LF>>, outputs)

ChatStep(agent, output) == [agent |-> agent, output |-> output]

NoMessage == [role |-> "", content |-> <<>>]
NoRequest == [conversation_id |-> "", messages |-> <<>>]
NoResponse == [status |-> 0, detail |-> "", conversation_id |-> "", reply |-> <<>>, steps |-> <<>>]

\* raise HTTPException(status_code, detail)
HTTPException(status_code, detail) ==
    [status |-> status_code, detail |-> detail, conversation_id |-> "", reply |-> <<>>,
     steps |-> <<>>]

----------------------------------------------------------------------------
(***************************************************************************)
(* clients/customgpt.py: the exception classes.  The module defines the    *)
(* name CustomGPTError twice, at line 72 (the base of the 4xx and 5xx      *)
(* classes) and again at line 158; a later definition rebinds the name, so *)
(* what another module imports as CustomGPTError is the class of line 158. *)
(* The httpx classes and ValueError stand for what else a client raises.   *)
(***************************************************************************)
CustomGPTError_72 == "CustomGPTError (customgpt.py:72)"
CustomGPTError_158 == "CustomGPTError (customgpt.py:158)"
CustomGPTClientError == "CustomGPTClientError"
CustomGPTServerError == "CustomGPTServerError"

\* The class the name CustomGPTError denotes after the module has run.
CustomGPTError == CustomGPTError_158

\* Each class's base class.
BaseClass ==
    [c \in {CustomGPTError_72, CustomGPTError_158, CustomGPTClientError,
            CustomGPTServerError, "RuntimeError", "ValueError", "JSONDecodeError",
            "HTTPStatusError", "RequestError"} |->
        CASE c = CustomGPTClientError -> CustomGPTError_72
          [] c = CustomGPTServerError -> CustomGPTError_72
          [] c = CustomGPTError_158 -> "RuntimeError"
          [] c = "JSONDecodeError" -> "ValueError"
          [] OTHER -> "Exception"]

\* issubclass(c, d)
RECURSIVE IsSubclass(_, _)
IsSubclass(c, d) == c = d \/ (c # "Exception" /\ IsSubclass(BaseClass[c], d))

\* isinstance(exc, error_type)
IsInstance(exc, error_type) == IsSubclass(exc.class, error_type)

----------------------------------------------------------------------------
(***************************************************************************)
(* router.py: the conversation routes.                                     *)
(***************************************************************************)
HTTP_401_UNAUTHORIZED == 401
HTTP_404_NOT_FOUND == 404
HTTP_500_INTERNAL_SERVER_ERROR == 500
HTTP_502_BAD_GATEWAY == 502

\* _CUSTOMGPT_STATUS_MAP
CUSTOMGPT_STATUS_MAP ==
    << <<CustomGPTClientError, HTTP_400_BAD_REQUEST>>,
       <<CustomGPTServerError, HTTP_502_BAD_GATEWAY>>,
       <<CustomGPTError, HTTP_500_INTERNAL_SERVER_ERROR>> >>

\* The messages update_conversation passes as fallback_messages.
UpdateFallbackMessages ==
    [c \in {CustomGPTClientError, CustomGPTServerError, CustomGPTError} |->
        CASE c = CustomGPTClientError -> "Upstream request failed with a client error."
          [] c = CustomGPTServerError -> "Upstream service encountered an error."
          [] OTHER -> "Unexpected error talking to CustomGPT."]

\* fallback_messages or {}, for a route that passes none.
NoFallbackMessages == [c \in {} |-> ""]

\* What a route ends with: an HTTPException (or the normal return, as a
\* status with data), or an exception that leaves the handler.
RouteHTTPException(status_code, form, value) ==
    [raised |-> "HTTPException", status |-> status_code,
     detail |-> [form |-> form, value |-> value], exc |-> "", data |-> ""]

RouteReturn(status_code, detail, data) ==
    [raised |-> "", status |-> status_code,
     detail |-> [form |-> "str", value |-> detail], exc |-> "", data |-> data]

Propagate(exc) ==
    [raised |-> "exception", status |-> 0, detail |-> [form |-> "", value |-> ""],
     exc |-> exc.class, data |-> ""]

\* _raise_customgpt_exception: the first entry of the map whose class the
\* error is an instance of gives the status; detail is
\* str(exc) or fallback or str(exc); with no entry the error is raised again.
RECURSIVE RaiseFrom(_, _, _)
RaiseFrom(status_map, exc, fallback_messages) ==
    IF status_map = <<>> THEN Propagate(exc)
    ELSE LET error_type == status_map[1][1]
             status_code == status_map[1][2]
             fallback == IF error_type \in DOMAIN fallback_messages
                         THEN fallback_messages[error_type] ELSE ""
         IN  IF IsInstance(exc, error_type)
             THEN RouteHTTPException(status_code, "str",
                      IF exc.message # "" THEN exc.message
                      ELSE IF fallback # "" THEN fallback ELSE exc.message)
             ELSE RaiseFrom(Tail(status_map), exc, fallback_messages)

RaiseCustomGPTException(exc, fallback_messages) ==
    RaiseFrom(CUSTOMGPT_STATUS_MAP, exc, fallback_messages)

\* The same handler answering every upstream status error with its status.
ListProjectConversations_SameStatus(outcome) ==
    IF outcome.class = "" THEN RouteReturn(HTTP_200_OK, "", outcome.data)
    ELSE IF IsInstance(outcome, CustomGPTError)
    THEN RaiseCustomGPTException(outcome, NoFallbackMessages)
    ELSE IF IsInstance(outcome, "HTTPStatusError")
    THEN RouteHTTPException(outcome.status_code,
                            IF outcome.body_is_json THEN "json" ELSE "text", outcome.body)
    ELSE IF IsInstance(outcome, "RequestError")
    THEN RouteHTTPException(HTTP_502_BAD_GATEWAY, "text", outcome.message)
    ELSE Propagate(outcome)

\* list_project_conversations, given what client.list_conversations did.
ListProjectConversations(outcome) ==
    IF outcome.class = "" THEN RouteReturn(HTTP_200_OK, "", outcome.data)
    ELSE IF IsInstance(outcome, CustomGPTError)
    THEN RaiseCustomGPTException(outcome, NoFallbackMessages)
    ELSE IF IsInstance(outcome, "HTTPStatusError")
    THEN LET form == IF outcome.body_is_json THEN "json" ELSE "text"
             status_code == IF outcome.status_code \in
                                   {HTTP_400_BAD_REQUEST, HTTP_401_UNAUTHORIZED,
                                    HTTP_404_NOT_FOUND}
                            THEN outcome.status_code ELSE HTTP_502_BAD_GATEWAY
         IN  RouteHTTPException(status_code, form, outcome.body)
    ELSE IF IsInstance(outcome, "RequestError")
    THEN RouteHTTPException(HTTP_502_BAD_GATEWAY, "text", outcome.message)
    ELSE Propagate(outcome)

\* update_conversation (the route), given what client.update_conversation did.
UpdateConversation(outcome) ==
    IF outcome.class = "" THEN RouteReturn(HTTP_200_OK, "Conversation updated.", outcome.data)
    ELSE IF IsInstance(outcome, CustomGPTError)
    THEN RaiseCustomGPTException(outcome, UpdateFallbackMessages)
    ELSE Propagate(outcome)

\* The framework's answer: the HTTPException's status, or 500 for any other
\* exception that leaves the handler.
HttpStatusOf(result) ==
    IF result.raised = "exception" THEN HTTP_500_INTERNAL_SERVER_ERROR ELSE result.status

\* What a client call can do: return data, or raise.
Returned(data) ==
    [class |-> "", message |-> "", status_code |-> 0, body |-> "", body_is_json |-> FALSE,
     data |-> data]

Raised(class, message) ==
    [class |-> class, message |-> message, status_code |-> 0, body |-> "",
     body_is_json |-> FALSE, data |-> ""]

RaisedStatusError(status_code, body, body_is_json) ==
    [class |-> "HTTPStatusError", message |-> "error", status_code |-> status_code,
     body |-> body, body_is_json |-> body_is_json, data |-> ""]

UpstreamErrorStatuses == {400, 401, 403, 404, 500, 503}

NoOutcome == Returned("")

----------------------------------------------------------------------------
(***************************************************************************)
(* clients/customgpt.py: the three client operations.  Each is given what  *)
(* the upstream API would answer to one request, and yields the outcome of *)
(* the call together with the requests it issued.                          *)
(***************************************************************************)
\* Python's None, for an optional string.
None == "<None>"

\* Response bodies: empty, three JSON objects, a JSON array, text that is
\* not JSON.
Bodies == {"", "{}", "{data: [...]}", "{detail: error}", "[...]", "not json"}

\* json.loads(body) succeeds.
IsJson(body) == body \in {"{}", "{data: [...]}", "{detail: error}", "[...]"}

\* isinstance(json.loads(body), dict)
IsDict(body) == body \in {"{}", "{data: [...]}", "{detail: error}"}

UpstreamStatuses == {200, 204} \cup UpstreamErrorStatuses

\* The reason phrase of a status line.
Reason(status) ==
    CASE status = 200 -> "OK"
      [] status = 204 -> "No Content"
      [] status = 400 -> "Bad Request"
      [] status = 401 -> "Unauthorized"
      [] status = 403 -> "Forbidden"
      [] status = 404 -> "Not Found"
      [] status = 500 -> "Internal Server Error"
      [] status = 503 -> "Service Unavailable"
      [] OTHER -> ""

\* What the transport does with a request: it hands back the response
\* ("response"), raises urllib's HTTPError for a response that is not 2xx
\* ("http_error"), or fails to reach the upstream ("unreachable").  httpx
\* hands back every response, so for it the first two are the same.
Answer(kind, status, body) == [kind |-> kind, status |-> status, body |-> body]

UpstreamAnswers ==
    {Answer("response", s, b) : s \in UpstreamStatuses, b \in Bodies}
    \cup {Answer("http_error", s, b) : s \in UpstreamErrorStatuses, b \in Bodies}
    \cup {Answer("unreachable", 0, "")}

NoAnswer == Answer("", 0, "")

\* The arguments of a client operation (each operation reads its own).
ClientArgs ==
    [project_id : {"1", "42"}, session_id : {"abc"}, page : {"1", "3"},
     order : {"asc", "desc", "ASC", "invalid"}, order_by : {"id"}, user_filter : {"all"},
     name : {None, "Demo"}]

NoArgs ==
    [project_id |-> "", session_id |-> "", page |-> "", order |-> "", order_by |-> "",
     user_filter |-> "", name |-> None]

\* One HTTP request: method, the path below the base URL, the query
\* parameters and the JSON body as key-value pairs.
HttpRequest(method, path, params, json) ==
    [method |-> method, path |-> path, params |-> params, json |-> json]

\* What an operation did: the outcome of the call and the requests issued.
ClientResult(outcome, requests) == [outcome |-> outcome, requests |-> requests]

NoClientResult == ClientResult(NoOutcome, <<>>)

\* list_conversations: the request.
ListConversationsRequest(args) ==
    HttpRequest("GET", <<"api", "v1", "projects", args.project_id, "conversations">>,
                <<<<"page", args.page>>, <<"order", args.order>>,
                  <<"order_by", args.order_by>>, <<"user_filter", args.user_filter>>>>
                    \o (IF args.name # None THEN <<<<"name", args.name>>>> ELSE <<>>),
                <<>>)

\* The same with the statuses classified as update_conversation does.
ListConversationsOutcome_ClassifiesStatus(answer) ==
    IF answer.kind = "unreachable" THEN Raised("RequestError", "connection refused")
    ELSE IF 400 <= answer.status /\ answer.status < 500
    THEN Raised(CustomGPTClientError, "CustomGPT rejected the request.")
    ELSE IF answer.status >= 500
    THEN Raised(CustomGPTServerError, "CustomGPT encountered an error.")
    ELSE IF IsJson(answer.body) THEN Returned(answer.body)
    ELSE Raised("JSONDecodeError", "Expecting value")

\* list_conversations: session.get, raise_for_status, response.json().
ListConversationsOutcome(answer) ==
    IF answer.kind = "unreachable" THEN Raised("RequestError", "connection refused")
    ELSE IF ~(200 <= answer.status /\ answer.status < 300)
    THEN RaisedStatusError(answer.status, answer.body, IsJson(answer.body))
    ELSE IF IsJson(answer.body) THEN Returned(answer.body)
    ELSE Raised("JSONDecodeError", "Expecting value")

ClientListConversations(args, answer) ==
    ClientResult(ListConversationsOutcome(answer), <<ListConversationsRequest(args)>>)

\* update_conversation (the client's): the request.
UpdateConversationRequest(args) ==
    HttpRequest("PUT", <<"projects", args.project_id, "conversations", args.session_id>>,
                <<>>,
                IF args.name # None THEN <<<<"name", args.name>>>> ELSE <<>>)

\* update_conversation: the raise for a status that is not 2xx, which the
\* except clause for HTTPError and the code after the try block share.
UpdateConversationStatusError(status) ==
    IF 400 <= status /\ status < 500
    THEN Raised(CustomGPTClientError,
                "CustomGPT rejected the request (status " \o ToString(status) \o ").")
    ELSE IF status >= 500
    THEN Raised(CustomGPTServerError,
                "CustomGPT encountered an error (status " \o ToString(status) \o ").")
    ELSE Raised(CustomGPTError,
                "Unexpected response status " \o ToString(status) \o " from CustomGPT API.")

UpdateConversationOutcome(answer) ==
    IF answer.kind = "unreachable"
    THEN Raised(CustomGPTError, "Failed to reach CustomGPT API")
    ELSE IF answer.kind = "http_error" THEN UpdateConversationStatusError(answer.status)
    ELSE IF 200 <= answer.status /\ answer.status < 300
    THEN IF answer.body # ""
         THEN IF IsJson(answer.body) THEN Returned(answer.body)
              ELSE Raised(CustomGPTError, "Invalid JSON received from CustomGPT API")
         ELSE Returned("{}")
    ELSE UpdateConversationStatusError(answer.status)

ClientUpdateConversation(args, answer) ==
    ClientResult(UpdateConversationOutcome(answer), <<UpdateConversationRequest(args)>>)

\* _build_messages_url
BuildMessagesRequest(args) ==
    HttpRequest("GET",
                <<"projects", args.project_id, "conversations", args.session_id, "messages">>,
                <<<<"page", args.page>>, <<"order", args.order>>>>,
                <<>>)

\* get_conversation_messages, from urlopen on: an HTTPError or URLError
\* becomes a CustomGPTError; a response that was handed back is decoded
\* whatever its status.
GetConversationMessagesOutcome(answer) ==
    IF answer.kind = "unreachable"
    THEN Raised(CustomGPTError, "Failed to reach CustomGPT API: connection refused")
    ELSE IF answer.kind = "http_error"
    THEN Raised(CustomGPTError,
                "CustomGPT API responded with HTTP " \o ToString(answer.status) \o ": "
                    \o (IF answer.body # "" THEN answer.body ELSE Reason(answer.status)))
    ELSE IF ~IsJson(answer.body)
    THEN Raised(CustomGPTError, "CustomGPT API returned malformed JSON.")
    ELSE IF ~IsDict(answer.body)
    THEN Raised(CustomGPTError, "Unexpected response type received from CustomGPT API.")
    ELSE Returned(answer.body)

\* The same operation with the order checked only after the request.
ClientGetConversationMessages_ValidatesLate(args, answer) ==
    IF args.order \notin {"asc", "desc"}
    THEN ClientResult(Raised("ValueError", "order must be either 'asc' or 'desc'."),
                      <<BuildMessagesRequest(args)>>)
    ELSE ClientResult(GetConversationMessagesOutcome(answer), <<BuildMessagesRequest(args)>>)

\* get_conversation_messages
ClientGetConversationMessages(args, answer) ==
    IF args.order \notin {"asc", "desc"}
    THEN ClientResult(Raised("ValueError", "order must be either 'asc' or 'desc'."), <<>>)
    ELSE ClientResult(GetConversationMessagesOutcome(answer), <<BuildMessagesRequest(args)>>)

----------------------------------------------------------------------------
\* What the client call of a route can do: whatever the client operations
\* yield, and whatever an injected client may return or raise.
ClientOutcomes ==
    {Returned(d) : d \in {"{}", "{data: [...]}"}}
    \cup {Raised(c, m) : c \in {CustomGPTClientError, CustomGPTServerError, CustomGPTError_72,
                                CustomGPTError_158, "RequestError", "ValueError"},
                         m \in {"", "upstream said no",
                                "CustomGPT rejected the request (status 404)."}}
    \cup {RaisedStatusError(st, b[1], b[2]) :
              st \in UpstreamErrorStatuses,
              b \in {<<"{detail: error}", TRUE>>, <<"not json", FALSE>>}}
    \cup {ListConversationsOutcome(a) : a \in UpstreamAnswers}
    \cup {UpdateConversationOutcome(a) : a \in UpstreamAnswers}

NoRouteResult == RouteReturn(0, "", "")

----------------------------------------------------------------------------
(***************************************************************************)
(* config.py: the settings loader and its cache.  The values of            *)
(* environment variables are strings of the characters above.              *)
(***************************************************************************)
\* An entry of os.environ: present with a value, or absent (None to getenv).
EnvValue(value) == [set |-> TRUE, value |-> value]
Unset == [set |-> FALSE, value |-> <<>>]

\* The default of Settings.customgpt_api_base and of os.getenv at line 30.
DEFAULT_API_BASE == <<"https://app.customgpt.ai/api/v1">>

\* The values each variable takes in the environments considered.
EnvValues ==
    [CUSTOMGPT_API_KEY |-> {<<>>, <<SP>>, <<"key">>, <<"other-key">>},
     CUSTOMGPT_API_BASE |-> {<<"https://new.example.com">>},
     CUSTOMGPT_BASE_URL |-> {<<"https://legacy.example.com">>},
     ORCHESTRATOR_BASE_URL |-> {<<"http://localhost:8000">>}]

EnvNames == DOMAIN EnvValues

EnvEntries(name) == {Unset} \cup {EnvValue(v) : v \in EnvValues[name]}

\* os.getenv(name)
Getenv(env, name) == env[name]

\* os.getenv(name, default)
GetenvDefault(env, name, default) == IF env[name].set THEN env[name].value ELSE default

\* Settings(...)
Settings(api_key, api_base, orchestrator_base) ==
    [customgpt_api_key |-> api_key, customgpt_api_base |-> api_base,
     orchestrator_base_url |-> orchestrator_base]

NoSettings == Settings(<<>>, <<>>, Unset)

\* What a call of the loader gives: the Settings returned, or the class of
\* the exception raised; hit tells a value served from the cache.
SettingsResult(raised, settings, hit) ==
    [raised |-> raised, settings |-> settings, hit |-> hit]

NoSettingsResult == SettingsResult("", NoSettings, FALSE)

\* _load_settings
LoadSettings(env) ==
    LET api_key == Getenv(env, "CUSTOMGPT_API_KEY")
        api_base == GetenvDefault(env, "CUSTOMGPT_API_BASE", DEFAULT_API_BASE)
        orchestrator_base == Getenv(env, "ORCHESTRATOR_BASE_URL")
    IN  IF ~api_key.set \/ api_key.value = <<>>
        THEN SettingsResult("RuntimeError", NoSettings, FALSE)
        ELSE SettingsResult("", Settings(api_key.value, api_base, orchestrator_base), FALSE)

\* The cache of lru_cache around get_settings: empty, or the one value.
EmptyCache == [filled |-> FALSE, value |-> NoSettings]
FilledCache(settings) == [filled |-> TRUE, value |-> settings]

\* get_settings without a cache: every call loads.
GetSettings_NoCache(cache, env) == LoadSettings(env)

\* get_settings: the cached value if there is one, else _load_settings().
GetSettings(cache, env) ==
    IF cache.filled THEN SettingsResult("", cache.value, TRUE) ELSE LoadSettings(env)

\* A cache that also keeps the outcome of a call that raised.
CacheAfter_KeepsFailure(cache, result) ==
    IF ~result.hit THEN FilledCache(result.settings) ELSE cache

\* lru_cache keeps what the function returned; a raised exception is not kept.
CacheAfter(cache, result) ==
    IF ~result.hit /\ result.raised = "" THEN FilledCache(result.settings) ELSE cache

----------------------------------------------------------------------------
(***************************************************************************)
(* clients/customgpt.py: get_customgpt_client, the dependency that gives a *)
(* route its client.                                                       *)
(***************************************************************************)
\* try: yield client / finally: client.close() closes on every way out of
\* the yield, whether the handler returned or raised.
FinallyRuns_OnReturnOnly(handler_raised) == ~handler_raised

FinallyRuns(handler_raised) == TRUE

----------------------------------------------------------------------------
VARIABLES
    content,      \* the argument of _extract_orchestrated_text
    extracted,    \* its result
    reextracted,  \* the result of applying it to its own result
    xpc,          \* "input", "extracted", "reextracted" ("idle": not in use)
    request,              \* the ChatRequest of POST /v1/chat
    cpc,                  \* the handler's position
    latest_user_message,  \* orchestrate_chat's locals
    extracted_content,
    research_summary,
    plan,
    draft,
    review,
    calls,                \* the collaborators called so far, in order
    response,             \* the HTTP response
    route,                \* the conversation route requested: "list", "update"
    rpc,                  \* the route handler's position
    client_outcome,       \* what the client call returned or raised
    route_result,         \* what the handler returned or raised
    route_status,         \* the HTTP status answered
    operation,            \* the client operation called
    call_args,            \* its arguments
    upstream,             \* what the upstream API answers to a request
    client_result,        \* the outcome of the call and the requests issued
    kpc,                  \* "ready", "done"
    environ,              \* os.environ
    settings_cache,       \* the cache of get_settings
    settings_result,      \* what the last get_settings() returned or raised
    last_call,            \* the last call made: "get_settings", "cache_clear", "setenv", "delenv"
    failed_since_clear,   \* history: a get_settings() has raised since the cache was last empty by start or cache_clear()
    dep_route,            \* the route served through get_customgpt_client
    dpc,                  \* the position of the request in the dependency
    client_state,         \* the client of the request: "none", "open", "closed"
    close_calls,          \* the number of calls of client.close()
    dep_outcome,          \* what the handler's client call returned or raised
    dep_result            \* what the handler returned or raised

xvars == <<content, extracted, reextracted, xpc>>

cvars == <<request, cpc, latest_user_message, extracted_content, research_summary, plan,
           draft, review, calls, response>>

rvars == <<route, rpc, client_outcome, route_result, route_status>>

kvars == <<operation, call_args, upstream, client_result, kpc>>

svars == <<environ, settings_cache, settings_result, last_call, failed_since_clear>>

dvars == <<dep_route, dpc, client_state, close_calls, dep_outcome, dep_result>>

vars == <<xvars, cvars, rvars, kvars, svars, dvars>>

ExtractIdle ==
    /\ content = <<>>
    /\ extracted = <<>>
    /\ reextracted = <<>>
    /\ xpc = "idle"

ChatIdle ==
    /\ request = NoRequest
    /\ cpc = "idle"
    /\ latest_user_message = NoMessage
    /\ extracted_content = <<>>
    /\ research_summary = <<>>
    /\ plan = <<>>
    /\ draft = <<>>
    /\ review = <<>>
    /\ calls = <<>>
    /\ response = NoResponse

RouteIdle ==
    /\ route = ""
    /\ rpc = "idle"
    /\ client_outcome = NoOutcome
    /\ route_result = NoRouteResult
    /\ route_status = 0

ClientIdle ==
    /\ operation = ""
    /\ call_args = NoArgs
    /\ upstream = NoAnswer
    /\ client_result = NoClientResult
    /\ kpc = "idle"

SettingsIdle ==
    /\ environ = [n \in EnvNames |-> Unset]
    /\ settings_cache = EmptyCache
    /\ settings_result = NoSettingsResult
    /\ last_call = "idle"
    /\ failed_since_clear = FALSE

DependencyIdle ==
    /\ dep_route = ""
    /\ dpc = "idle"
    /\ client_state = "none"
    /\ close_calls = 0
    /\ dep_outcome = NoOutcome
    /\ dep_result = NoRouteResult

----------------------------------------------------------------------------
(***************************************************************************)
(* The extractor on its own: any input, one call, and a second call on the *)
(* result.                                                                 *)
(***************************************************************************)
ExtractInit ==
    /\ \E n \in 1..MaxLines : \E ls \in [1..n -> LineKinds] : \E t \in Terminators :
           content = Join(t, ls)
    /\ extracted = <<>>
    /\ reextracted = <<>>
    /\ xpc = "input"
    /\ ChatIdle
    /\ RouteIdle
    /\ ClientIdle
    /\ SettingsIdle
    /\ DependencyIdle

\* One call of _extract_orchestrated_text(content).
Extract ==
    /\ xpc = "input"
    /\ extracted' = ExtractOrchestratedText(content)
    /\ xpc' = "extracted"
    /\ UNCHANGED <<content, reextracted, cvars, rvars,
                   kvars, svars, dvars>>

\* A second call, on the first call's result.
ExtractAgain ==
    /\ xpc = "extracted"
    /\ reextracted' = ExtractOrchestratedText(extracted)
    /\ xpc' = "reextracted"
    /\ UNCHANGED <<content, extracted, cvars, rvars,
                   kvars, svars, dvars>>

ExtractNext == Extract \/ ExtractAgain

ExtractSpec == ExtractInit /\ [][ExtractNext]_vars

----------------------------------------------------------------------------
(***************************************************************************)
(* POST /v1/chat: one request handled by orchestrate_chat, statement by    *)
(* statement.                                                              *)
(***************************************************************************)
ChatInit ==
    /\ \E n \in 0..MaxMessages : \E ms \in [1..n -> ChatMessage] : \E c \in ConversationIds :
           request = [conversation_id |-> c, messages |-> ms]
    /\ cpc = "received"
    /\ latest_user_message = NoMessage
    /\ extracted_content = <<>>
    /\ research_summary = <<>>
    /\ plan = <<>>
    /\ draft = <<>>
    /\ review = <<>>
    /\ calls = <<>>
    /\ response = NoResponse
    /\ ExtractIdle
    /\ RouteIdle
    /\ ClientIdle
    /\ SettingsIdle
    /\ DependencyIdle

\* if not request.messages: raise HTTPException(400, ...)
CheckMessages ==
    /\ cpc = "received"
    /\ IF request.messages = <<>>
       THEN /\ response' = HTTPException(HTTP_400_BAD_REQUEST,
                               "Conversation history must include at least one message.")
            /\ cpc' = "responded"
       ELSE /\ cpc' = "checked"
            /\ UNCHANGED response
    /\ UNCHANGED <<request, latest_user_message, extracted_content, research_summary, plan,
                   draft, review, calls, xvars, rvars,
                   kvars, svars, dvars>>

\* latest_user_message = _get_latest_user_message(request.messages)
GetLatestUserMessage ==
    /\ cpc = "checked"
    /\ LET i == LatestUserIndex(request.messages)
       IN  IF i = 0
           THEN /\ response' = HTTPException(HTTP_400_BAD_REQUEST,
                       "At least one user message is required to generate a response.")
                /\ cpc' = "responded"
                /\ UNCHANGED latest_user_message
           ELSE /\ latest_user_message' = request.messages[i]
                /\ cpc' = "located"
                /\ UNCHANGED response
    /\ UNCHANGED <<request, extracted_content, research_summary, plan, draft, review, calls,
                   xvars, rvars,
                   kvars, svars, dvars>>

\* extracted_content = _extract_orchestrated_text(latest_user_message.content);
\* 204 when it is ""; else the message is rebuilt around the extracted text.
ExtractContent ==
    /\ cpc = "located"
    /\ LET text == ExtractOrchestratedText(latest_user_message.content)
       IN  /\ extracted_content' = text
           /\ calls' = Append(calls, "extract")
           /\ IF IsNoContent(text)
              THEN /\ response' = HTTPException(HTTP_204_NO_CONTENT, "")
                   /\ cpc' = "responded"
                   /\ UNCHANGED latest_user_message
              ELSE /\ latest_user_message' =
                          [role |-> latest_user_message.role, content |-> text]
                   /\ cpc' = "extracted"
                   /\ UNCHANGED response
    /\ UNCHANGED <<request, research_summary, plan, draft, review, xvars, rvars,
                   kvars, svars, dvars>>

\* research_summary = _RESEARCH_AGENT.run(latest_user_message.content)
RunResearch ==
    /\ cpc = "extracted"
    /\ research_summary' = ResearchAgentRun(latest_user_message.content)
    /\ calls' = Append(calls, "researcher")
    /\ cpc' = "researched"
    /\ UNCHANGED <<request, latest_user_message, extracted_content, plan, draft, review,
                   response, xvars, rvars,
                   kvars, svars, dvars>>

\* plan = _PLANNING_AGENT.run(research_summary)
RunPlanning ==
    /\ cpc = "researched"
    /\ plan' = PlanningAgentRun(research_summary)
    /\ calls' = Append(calls, "planner")
    /\ cpc' = "planned"
    /\ UNCHANGED <<request, latest_user_message, extracted_content, research_summary, draft,
                   review, response, xvars, rvars,
                   kvars, svars, dvars>>

\* draft = _BUILDER_AGENT.run(plan)
RunBuilder ==
    /\ cpc = "planned"
    /\ draft' = BuilderAgentRun(plan)
    /\ calls' = Append(calls, "builder")
    /\ cpc' = "built"
    /\ UNCHANGED <<request, latest_user_message, extracted_content, research_summary, plan,
                   review, response, xvars, rvars,
                   kvars, svars, dvars>>

\* review = _REVIEWER_AGENT.run(draft)
RunReviewer ==
    /\ cpc = "built"
    /\ review' = ReviewerAgentRun(draft)
    /\ calls' = Append(calls, "reviewer")
    /\ cpc' = "reviewed"
    /\ UNCHANGED <<request, latest_user_message, extracted_content, research_summary, plan,
                   draft, response, xvars, rvars,
                   kvars, svars, dvars>>

\* reply, steps, and the ChatResponse returned with status 200.
Respond ==
    /\ cpc = "reviewed"
    /\ response' = [status |-> HTTP_200_OK,
                    detail |-> "",
                    conversation_id |-> request.conversation_id,
                    reply |-> JoinReply(<<research_summary, plan, draft, review>>),
                    steps |-> << ChatStep("researcher", research_summary),
                                 ChatStep("planner", plan),
                                 ChatStep("builder", draft),
                                 ChatStep("reviewer", review) >>]
    /\ cpc' = "responded"
    /\ UNCHANGED <<request, latest_user_message, extracted_content, research_summary, plan,
                   draft, review, calls, xvars, rvars,
                   kvars, svars, dvars>>

Next ==
    \/ CheckMessages
    \/ GetLatestUserMessage
    \/ ExtractContent
    \/ RunResearch
    \/ RunPlanning
    \/ RunBuilder
    \/ RunReviewer
    \/ Respond

Spec == ChatInit /\ [][Next]_vars

----------------------------------------------------------------------------
(***************************************************************************)
(* The conversation routes: one request to GET .../conversations or        *)
(* PUT .../conversations/{session_id}; the injected client's call returns  *)
(* or raises, and the handler turns that into the answer.                  *)
(***************************************************************************)
RouteInit ==
    /\ route \in {"list", "update"}
    /\ rpc = "received"
    /\ client_outcome = NoOutcome
    /\ route_result = NoRouteResult
    /\ route_status = 0
    /\ ExtractIdle
    /\ ChatIdle
    /\ ClientIdle
    /\ SettingsIdle
    /\ DependencyIdle

\* client.list_conversations(...) or client.update_conversation(...)
ClientCall ==
    /\ rpc = "received"
    /\ client_outcome' \in ClientOutcomes
    /\ rpc' = "called"
    /\ UNCHANGED <<route, route_result, route_status, xvars, cvars,
                   kvars, svars, dvars>>

\* The rest of list_project_conversations.
ListHandle ==
    /\ rpc = "called"
    /\ route = "list"
    /\ route_result' = ListProjectConversations(client_outcome)
    /\ route_status' = HttpStatusOf(route_result')
    /\ rpc' = "responded"
    /\ UNCHANGED <<route, client_outcome, xvars, cvars,
                   kvars, svars, dvars>>

\* The rest of update_conversation.
UpdateHandle ==
    /\ rpc = "called"
    /\ route = "update"
    /\ route_result' = UpdateConversation(client_outcome)
    /\ route_status' = HttpStatusOf(route_result')
    /\ rpc' = "responded"
    /\ UNCHANGED <<route, client_outcome, xvars, cvars,
                   kvars, svars, dvars>>

RouteNext == ClientCall \/ ListHandle \/ UpdateHandle

RouteSpec == RouteInit /\ [][RouteNext]_vars

----------------------------------------------------------------------------
(***************************************************************************)
(* The client operations: one call of one operation, with what the         *)
(* upstream would answer.                                                  *)
(***************************************************************************)
ClientInit ==
    /\ operation \in {"list_conversations", "update_conversation",
                      "get_conversation_messages"}
    /\ call_args \in ClientArgs
    /\ upstream \in UpstreamAnswers
    /\ client_result = NoClientResult
    /\ kpc = "ready"
    /\ ExtractIdle
    /\ ChatIdle
    /\ RouteIdle
    /\ SettingsIdle
    /\ DependencyIdle

\* client.list_conversations(project_id, page=..., order=..., ...)
CallListConversations ==
    /\ kpc = "ready"
    /\ operation = "list_conversations"
    /\ client_result' = ClientListConversations(call_args, upstream)
    /\ kpc' = "done"
    /\ UNCHANGED <<operation, call_args, upstream, xvars, cvars, rvars, svars, dvars>>

\* client.update_conversation(project_id, session_id, name)
CallUpdateConversation ==
    /\ kpc = "ready"
    /\ operation = "update_conversation"
    /\ client_result' = ClientUpdateConversation(call_args, upstream)
    /\ kpc' = "done"
    /\ UNCHANGED <<operation, call_args, upstream, xvars, cvars, rvars, svars, dvars>>

\* client.get_conversation_messages(project_id, session_id, page=..., order=...)
CallGetConversationMessages ==
    /\ kpc = "ready"
    /\ operation = "get_conversation_messages"
    /\ client_result' = ClientGetConversationMessages(call_args, upstream)
    /\ kpc' = "done"
    /\ UNCHANGED <<operation, call_args, upstream, xvars, cvars, rvars, svars, dvars>>

ClientNext == CallListConversations \/ CallUpdateConversation \/ CallGetConversationMessages

ClientSpec == ClientInit /\ [][ClientNext]_vars

----------------------------------------------------------------------------
(***************************************************************************)
(* The settings: a process that starts with some environment and an empty  *)
(* cache, and then calls get_settings() and get_settings.cache_clear() and *)
(* changes its environment in any order.                                   *)
(***************************************************************************)
SettingsInit ==
    /\ environ \in [EnvNames -> UNION {EnvEntries(n) : n \in EnvNames}]
    /\ \A n \in EnvNames : environ[n] \in EnvEntries(n)
    /\ settings_cache = EmptyCache
    /\ settings_result = NoSettingsResult
    /\ last_call = "start"
    /\ failed_since_clear = FALSE
    /\ ExtractIdle
    /\ ChatIdle
    /\ RouteIdle
    /\ ClientIdle
    /\ DependencyIdle

\* get_settings()
CallGetSettings ==
    /\ settings_result' = GetSettings(settings_cache, environ)
    /\ settings_cache' = CacheAfter(settings_cache, settings_result')
    /\ last_call' = "get_settings"
    /\ failed_since_clear' = (failed_since_clear \/ settings_result'.raised # "")
    /\ UNCHANGED <<environ, xvars, cvars, rvars, kvars, dvars>>

\* get_settings.cache_clear()
CacheClear ==
    /\ settings_cache' = EmptyCache
    /\ last_call' = "cache_clear"
    /\ failed_since_clear' = FALSE
    /\ UNCHANGED <<environ, settings_result, xvars, cvars, rvars, kvars, dvars>>

\* os.environ[name] = value
Setenv ==
    /\ \E n \in EnvNames : \E v \in EnvValues[n] :
           environ' = [environ EXCEPT ![n] = EnvValue(v)]
    /\ last_call' = "setenv"
    /\ UNCHANGED <<settings_cache, settings_result, failed_since_clear, xvars, cvars, rvars,
                   kvars, dvars>>

\* del os.environ[name]
Delenv ==
    /\ \E n \in EnvNames : environ' = [environ EXCEPT ![n] = Unset]
    /\ last_call' = "delenv"
    /\ UNCHANGED <<settings_cache, settings_result, failed_since_clear, xvars, cvars, rvars,
                   kvars, dvars>>

SettingsNext == CallGetSettings \/ CacheClear \/ Setenv \/ Delenv

SettingsSpec == SettingsInit /\ [][SettingsNext]_vars

----------------------------------------------------------------------------
(***************************************************************************)
(* One request served through get_customgpt_client: the framework runs the *)
(* generator to its yield, runs the route handler with the client, and     *)
(* then resumes the generator, throwing the handler's exception into it if *)
(* there is one.                                                           *)
(***************************************************************************)
DependencyInit ==
    /\ dep_route \in {"list", "update"}
    /\ dpc = "start"
    /\ client_state = "none"
    /\ close_calls = 0
    /\ dep_outcome = NoOutcome
    /\ dep_result = NoRouteResult
    /\ ExtractIdle
    /\ ChatIdle
    /\ RouteIdle
    /\ ClientIdle
    /\ SettingsIdle

\* client = CustomGPTClient(), up to the yield.  The constructor returns a
\* client with an open session or raises; when it raises, the request ends
\* with no client and the try block is never entered.
DependencyEnter ==
    /\ dpc = "start"
    /\ \E constructed \in BOOLEAN :
           IF constructed
           THEN client_state' = "open" /\ dpc' = "yielded"
           ELSE client_state' = "none" /\ dpc' = "failed"
    /\ UNCHANGED <<dep_route, close_calls, dep_outcome, dep_result, xvars, cvars, rvars,
                   kvars, svars>>

\* The handler calls the client it was given.
DependencyClientCall ==
    /\ dpc = "yielded"
    /\ dep_outcome' \in ClientOutcomes
    /\ dpc' = "called"
    /\ UNCHANGED <<dep_route, client_state, close_calls, dep_result, xvars, cvars, rvars,
                   kvars, svars>>

\* The handler returns or raises.
DependencyHandle ==
    /\ dpc = "called"
    /\ dep_result' = IF dep_route = "list" THEN ListProjectConversations(dep_outcome)
                     ELSE UpdateConversation(dep_outcome)
    /\ dpc' = "handled"
    /\ UNCHANGED <<dep_route, client_state, close_calls, dep_outcome, xvars, cvars, rvars,
                   kvars, svars>>

\* The generator is resumed: finally: client.close().
DependencyExit ==
    /\ dpc = "handled"
    /\ IF FinallyRuns(dep_result.raised # "")
       THEN client_state' = "closed" /\ close_calls' = close_calls + 1
       ELSE UNCHANGED <<client_state, close_calls>>
    /\ dpc' = "done"
    /\ UNCHANGED <<dep_route, dep_outcome, dep_result, xvars, cvars, rvars, kvars, svars>>

DependencyNext ==
    DependencyEnter \/ DependencyClientCall \/ DependencyHandle \/ DependencyExit

DependencySpec == DependencyInit /\ [][DependencyNext]_vars

----------------------------------------------------------------------------
(***************************************************************************)
(* The envelope as the specification words it, for stating the claims.     *)
(* Positions are 1-based positions in the list of lines.                   *)
(***************************************************************************)
LinesOf(x) == SplitLines(Normalize(x))

\* The lines of x, each trimmed.
TrimmedLinesOf(x) == LET lines == LinesOf(x) IN [p \in 1..Len(lines) |-> Strip(lines[p])]

\* The first non-blank line is the marker, compared as it stands.
HeaderFirst(x) == FirstNonBlank(LinesOf(x)) = <<ORCHESTRATOR_HEADER>>

\* The first non-blank line is the marker once trimmed.
TrimmedHeaderFirst(x) == Strip(FirstNonBlank(LinesOf(x))) = <<ORCHESTRATOR_HEADER>>

\* The positions of the begin sentinel among the trimmed lines.
BeginLines(trimmed) == {p \in 1..Len(trimmed) : trimmed[p] = <<USER_TEXT_BEGIN>>}

Least(S) == CHOOSE p \in S : \A r \in S : p <= r

\* The positions of the end sentinel after position b.
EndLinesAfter(trimmed, b) == {q \in (b + 1)..Len(trimmed) : trimmed[q] = <<USER_TEXT_END>>}

HasBeginLine(x) == BeginLines(TrimmedLinesOf(x)) # {}

\* The lines strictly between position b and position e, joined by "\n",
\* trailing newlines removed.
Between(lines, b, e) == RStripNewlines(Join(<<LF>>, SubSeq(lines, b + 1, e - 1)))

\* The payload of an envelope that has a begin sentinel: up to the first end
\* sentinel after it, or to the end of the input when there is none.
EnclosedPayload(x) ==
    LET lines == LinesOf(x)
        trimmed == TrimmedLinesOf(x)
        b == Least(BeginLines(trimmed))
        ends == EndLinesAfter(trimmed, b)
    IN  Between(lines, b, IF ends = {} THEN Len(lines) + 1 ELSE Least(ends))

Extracted == xpc \in {"extracted", "reextracted"}

(***************************************************************************)
(* C1: a message whose first non-blank line equals the marker once         *)
(* trimmed, and which has a USER_TEXT_BEGIN line, is unwrapped: the result *)
(* is the enclosed payload, not the raw input.                             *)
(***************************************************************************)
C1_TrimmedHeaderIsUnwrapped ==
    (Extracted /\ TrimmedHeaderFirst(content) /\ HasBeginLine(content))
        => extracted = EnclosedPayload(content)

C4_PlainTextVerbatimAndIdempotent ==
    (Extracted /\ ~HeaderFirst(content)) =>
        /\ extracted = content
        /\ xpc = "reextracted" => reextracted = extracted

C4_Witness ==
    /\ xpc = "reextracted"
    /\ content = <<TXT, CR, LF, SP, CR, LF, TXT>>
    /\ extracted = content
    /\ reextracted = content

----------------------------------------------------------------------------
(***************************************************************************)
(* POST /v1/chat: the request as the claims speak of it.                   *)
(***************************************************************************)
HasUserMessage == \E i \in 1..Len(request.messages) : request.messages[i].role = "user"

\* The last message, in list order, whose role is user.
LastUserMessage ==
    request.messages[CHOOSE i \in 1..Len(request.messages) :
                         /\ request.messages[i].role = "user"
                         /\ \A j \in (i + 1)..Len(request.messages) :
                                request.messages[j].role # "user"]

AgentLabels == {"researcher", "planner", "builder", "reviewer"}

NoAgentRan == \A k \in 1..Len(calls) : calls[k] \notin AgentLabels

AllFourAgentsRan == calls = <<"extract", "researcher", "planner", "builder", "reviewer">>

(***************************************************************************)
(* C3: a chat request whose latest user message starts with the marker     *)
(* header but has no USER_TEXT_BEGIN line is answered 204 No Content and   *)
(* no agent runs.                                                          *)
(***************************************************************************)
C3_MissingBeginGivesNoContent ==
    (/\ cpc = "responded"
     /\ HasUserMessage
     /\ HeaderFirst(LastUserMessage.content)
     /\ ~HasBeginLine(LastUserMessage.content))
        => (response.status = HTTP_204_NO_CONTENT /\ NoAgentRan)

(***************************************************************************)
(* C7: a chat request with a user message is answered 204 exactly when the *)
(* extraction of the latest user message is the empty text, and then no    *)
(* agent has run; otherwise the four stages have run, the first on the     *)
(* extracted text, and the answer is 200.                                  *)
(***************************************************************************)
C7_NoContentIffExtractionEmpty ==
    (cpc = "responded" /\ HasUserMessage) =>
        LET text == ExtractOrchestratedText(LastUserMessage.content)
        IN  /\ extracted_content = text
            /\ (response.status = HTTP_204_NO_CONTENT) <=> (text = <<>>)
            /\ text = <<>> => NoAgentRan
            /\ text # <<>> =>
                   /\ response.status = HTTP_200_OK
                   /\ AllFourAgentsRan
                   /\ research_summary = ResearchAgentRun(text)

C7_Witness ==
    /\ cpc = "responded"
    /\ HasUserMessage
    /\ LastUserMessage.content =
           <<ORCHESTRATOR_HEADER, LF, USER_TEXT_BEGIN, LF, USER_TEXT_END>>
    /\ response.status = HTTP_204_NO_CONTENT
    /\ calls = <<"extract">>

(***************************************************************************)
(* C8: a chat request whose message list is empty or holds no user message *)
(* is answered 400 (with the fixed detail when the list is not empty), and *)
(* neither the extraction nor any agent has been called: at no point of    *)
(* handling such a request is there a call.                                *)
(***************************************************************************)
C8_NoUserMessageIsRejectedFirst ==
    (cpc # "idle" /\ ~HasUserMessage) =>
        /\ calls = <<>>
        /\ cpc = "responded" =>
               /\ response.status = HTTP_400_BAD_REQUEST
               /\ request.messages # <<>> =>
                      response.detail =
                          "At least one user message is required to generate a response."

C8_Witness ==
    /\ cpc = "responded"
    /\ Len(request.messages) = 2
    /\ ~HasUserMessage
    /\ response.status = HTTP_400_BAD_REQUEST
    /\ calls = <<>>

(***************************************************************************)
(* C9: a successful chat response has exactly 4 steps, labelled in order   *)
(* researcher, planner, builder, reviewer; the first output is             *)
(* "Researching: " + the extracted text and each later output is its       *)
(* template applied to the output before it; reply is the four outputs     *)
(* joined by "\n\n"; conversation_id is the request's.                     *)
(***************************************************************************)
C9_FourStepsChained ==
    (cpc = "responded" /\ response.status = HTTP_200_OK) =>
        LET steps == response.steps
            text == ExtractOrchestratedText(LastUserMessage.content)
        IN  /\ Len(steps) = 4
            /\ <<steps[1].agent, steps[2].agent, steps[3].agent, steps[4].agent>>
                   = <<"researcher", "planner", "builder", "reviewer">>
            /\ steps[1].output = <<"Researching: ">> \o text
            /\ steps[2].output = <<"Plan based on: ">> \o steps[1].output
            /\ steps[3].output = <<"Draft based on: ">> \o steps[2].output
            /\ steps[4].output = <<"Review of: ">> \o steps[3].output
            /\ response.reply =
                   steps[1].output \o <<LF, LF>> \o steps[2].output \o <<LF, LF>>
                       \o steps[3].output \o <<LF, LF>> \o steps[4].output
            /\ response.conversation_id = request.conversation_id

C9_Witness ==
    /\ cpc = "responded"
    /\ response.status = HTTP_200_OK
    /\ request.conversation_id = "conv-2"
    /\ response.conversation_id = "conv-2"
    /\ response.steps[1].output = <<"Researching: ", TXT>>
    /\ response.steps[4].output =
           <<"Review of: ", "Draft based on: ", "Plan based on: ", "Researching: ", TXT>>

----------------------------------------------------------------------------
(***************************************************************************)
(* C10: in both conversation routes an error raised by the client is       *)
(* answered with the status of its kind: ClientError 400, ServerError 502, *)
(* any other CustomGPTError 500; a ClientError or ServerError is never     *)
(* answered 500.                                                           *)
(***************************************************************************)
C10_ErrorKindDecidesStatus ==
    rpc = "responded" =>
        /\ client_outcome.class = CustomGPTClientError
               => route_status = HTTP_400_BAD_REQUEST
        /\ client_outcome.class = CustomGPTServerError
               => route_status = HTTP_502_BAD_GATEWAY
        /\ client_outcome.class \in {CustomGPTError_72, CustomGPTError_158}
               => route_status = HTTP_500_INTERNAL_SERVER_ERROR


----------------------------------------------------------------------------
----------------------------------------------------------------------------
(***************************************************************************)
(* C12: in GET /v1/projects/{project_id}/conversations an upstream status  *)
(* error with status 400, 401 or 404 is answered with that status, one     *)
(* with any other status with 502, and a transport-level request error     *)
(* with 502; the detail is the upstream body, or the error text.           *)
(***************************************************************************)
C12_ListStatusErrorMapping ==
    (rpc = "responded" /\ route = "list") =>
        /\ client_outcome.class = "HTTPStatusError" =>
               /\ route_result.raised = "HTTPException"
               /\ route_status =
                      IF client_outcome.status_code \in {400, 401, 404}
                      THEN client_outcome.status_code ELSE 502
               /\ route_result.detail.value = client_outcome.body
        /\ client_outcome.class = "RequestError" =>
               /\ route_result.raised = "HTTPException"
               /\ route_status = 502
               /\ route_result.detail.value = client_outcome.message

C12_Witness ==
    /\ rpc = "responded"
    /\ route = "list"
    /\ client_outcome = RaisedStatusError(HTTP_500_INTERNAL_SERVER_ERROR, "not json", FALSE)
    /\ route_status = HTTP_502_BAD_GATEWAY
    /\ route_result.detail = [form |-> "text", value |-> "not json"]


----------------------------------------------------------------------------
(***************************************************************************)
(* What the claims about the client operations speak of: a call that has   *)
(* finished and issued a request, and the status the upstream answered.    *)
(***************************************************************************)
Answered ==
    kpc = "done" /\ client_result.requests # <<>> /\ upstream.kind # "unreachable"

Answered2xx ==
    Answered /\ upstream.kind = "response" /\ 200 <= upstream.status /\ upstream.status < 300

(***************************************************************************)
(* C13: for each of the three client operations and every upstream status *)
(* s, the operation raises a ClientError if 400 <= s < 500 and a           *)
(* ServerError if s >= 500.                                                *)
(***************************************************************************)
C13_StatusClassifiesError ==
    Answered =>
        /\ (400 <= upstream.status /\ upstream.status < 500)
               => client_result.outcome.class = CustomGPTClientError
        /\ upstream.status >= 500
               => client_result.outcome.class = CustomGPTServerError

(***************************************************************************)
(* C14: for each client operation and every upstream response with status *)
(* in [200,300), the operation returns the decoded JSON body, and the      *)
(* empty mapping when the body is empty; an empty 2xx body is never an     *)
(* error.                                                                  *)
(***************************************************************************)
C14_SuccessReturnsBody ==
    Answered2xx =>
        /\ IsDict(upstream.body) => client_result.outcome = Returned(upstream.body)
        /\ upstream.body = "" => client_result.outcome = Returned("{}")

(***************************************************************************)
(* C15: for each client operation, a 2xx response whose body is valid JSON *)
(* but not a mapping raises a CustomGPTError and is not returned; every    *)
(* value an operation returns is a mapping.                                *)
(***************************************************************************)
C15_OnlyMappingsReturned ==
    kpc = "done" =>
        /\ (Answered2xx /\ IsJson(upstream.body) /\ ~IsDict(upstream.body))
               => client_result.outcome.class \in {CustomGPTError_72, CustomGPTError_158}
        /\ client_result.outcome.class = "" => IsDict(client_result.outcome.data)

(***************************************************************************)
(* C16: get_conversation_messages called with an order other than "asc"    *)
(* and "desc" raises ValueError, a local validation error, and issues no   *)
(* request, whatever project_id, session_id and page are.                  *)
(***************************************************************************)
C16_InvalidOrderFailsBeforeRequest ==
    (kpc = "done" /\ operation = "get_conversation_messages"
                  /\ call_args.order \notin {"asc", "desc"}) =>
        /\ client_result.outcome.class = "ValueError"
        /\ client_result.requests = <<>>

C16_Witness ==
    /\ kpc = "done"
    /\ operation = "get_conversation_messages"
    /\ call_args.order = "ASC"
    /\ call_args.project_id = "42"
    /\ call_args.page = "3"
    /\ upstream = Answer("response", HTTP_200_OK, "{data: [...]}")
    /\ client_result.outcome.class = "ValueError"
    /\ client_result.requests = <<>>


----------------------------------------------------------------------------
(***************************************************************************)
(* What the claims about the settings speak of: get_settings() has just    *)
(* run _load_settings() on the environment of this state.                  *)
(***************************************************************************)
JustLoaded == last_call = "get_settings" /\ ~settings_result.hit

\* The API key is missing or blank: empty, or nothing but whitespace.
KeyMissingOrBlank(env) ==
    ~env["CUSTOMGPT_API_KEY"].set \/ Strip(env["CUSTOMGPT_API_KEY"].value) = <<>>

(***************************************************************************)
(* C17: loading the settings fails, with the configuration error, exactly  *)
(* when CUSTOMGPT_API_KEY is missing or blank (empty or whitespace only),  *)
(* and no Settings value that get_settings() returns has a blank api key.  *)
(***************************************************************************)
C17_LoadFailsIffKeyBlank ==
    /\ JustLoaded =>
           /\ settings_result.raised # "" <=> KeyMissingOrBlank(environ)
           /\ settings_result.raised \in {"", "RuntimeError"}
    /\ (last_call = "get_settings" /\ settings_result.raised = "")
           => Strip(settings_result.settings.customgpt_api_key) # <<>>

C19_BaseUrlPrecedence ==
    (JustLoaded /\ settings_result.raised = "") =>
        settings_result.settings.customgpt_api_base =
            IF environ["CUSTOMGPT_API_BASE"].set THEN environ["CUSTOMGPT_API_BASE"].value
            ELSE IF environ["CUSTOMGPT_BASE_URL"].set THEN environ["CUSTOMGPT_BASE_URL"].value
            ELSE DEFAULT_API_BASE


----------------------------------------------------------------------------
----------------------------------------------------------------------------
(***************************************************************************)
(* C21: a call of a client operation issues at most one request; when it   *)
(* fails after a request (4xx, 5xx, transport failure, malformed JSON) it  *)
(* raises one of the client's classified errors; and a transport failure   *)
(* is raised as a CustomGPTError, never as a ClientError or ServerError.   *)
(***************************************************************************)
C21_OneRequestOneClassifiedError ==
    kpc = "done" =>
        /\ Len(client_result.requests) <= 1
        /\ (client_result.requests # <<>> /\ client_result.outcome.class # "")
               => client_result.outcome.class \in
                      {CustomGPTClientError, CustomGPTServerError,
                       CustomGPTError_72, CustomGPTError_158}
        /\ (client_result.requests # <<>> /\ upstream.kind = "unreachable")
               => client_result.outcome.class \in {CustomGPTError_72, CustomGPTError_158}


----------------------------------------------------------------------------
(***************************************************************************)
(* The answer POST /v1/chat owes to a user text and a conversation id:     *)
(* 204 when the extracted text is empty, else the four outputs chained.    *)
(***************************************************************************)
AnswerTo(text, conversation_id) ==
    LET payload == ExtractOrchestratedText(text)
        o1 == <<"Researching: ">> \o payload
        o2 == <<"Plan based on: ">> \o o1
        o3 == <<"Draft based on: ">> \o o2
        o4 == <<"Review of: ">> \o o3
    IN  IF payload = <<>>
        THEN [status |-> HTTP_204_NO_CONTENT, detail |-> "", conversation_id |-> "",
              reply |-> <<>>, steps |-> <<>>]
        ELSE [status |-> HTTP_200_OK, detail |-> "", conversation_id |-> conversation_id,
              reply |-> o1 \o <<LF, LF>> \o o2 \o <<LF, LF>> \o o3 \o <<LF, LF>> \o o4,
              steps |-> <<[agent |-> "researcher", output |-> o1],
                          [agent |-> "planner", output |-> o2],
                          [agent |-> "builder", output |-> o3],
                          [agent |-> "reviewer", output |-> o4]>>]

(***************************************************************************)
(* C22: for a message list with at least one user message, the message     *)
(* POST /v1/chat selects is the last one of role user, and the response is *)
(* the answer to that message's content and the conversation id alone: no  *)
(* other message of the list has a part in it.                             *)
(***************************************************************************)
C22_OnlyLastUserMessageCounts ==
    HasUserMessage =>
        /\ cpc = "located" => latest_user_message = LastUserMessage
        /\ cpc = "responded" =>
               response = AnswerTo(LastUserMessage.content, request.conversation_id)

\* An earlier user message with another text, and the reply to the later.
C22_Witness ==
    /\ cpc = "responded"
    /\ request.messages =
           <<[role |-> "user", content |-> <<SP>>], [role |-> "user", content |-> <<TXT>>]>>
    /\ response.status = HTTP_200_OK
    /\ response.steps[1].output = <<"Researching: ", TXT>>


----------------------------------------------------------------------------
(***************************************************************************)
(* C23: a get_settings() call that raises leaves the cache empty, and the  *)
(* next get_settings() made once the key is set and not blank loads and    *)
(* returns the settings of the environment of that moment, with no         *)
(* cache_clear() needed: a failure is never cached.                        *)
(***************************************************************************)
C23_FailureIsNotCached ==
    /\ []((last_call = "get_settings" /\ settings_result.raised # "")
              => settings_cache = EmptyCache)
    /\ [][(/\ settings_result.raised # ""
           /\ last_call' = "get_settings"
           /\ ~KeyMissingOrBlank(environ'))
              => /\ settings_result'.raised = ""
                 /\ ~settings_result'.hit
                 /\ settings_result'.settings.customgpt_api_key =
                        environ'["CUSTOMGPT_API_KEY"].value
                 /\ settings_cache' = FilledCache(settings_result'.settings)]_vars

\* A call that loaded and returned settings after an earlier call had
\* raised, with no cache_clear() between the two.
C23_Witness ==
    /\ last_call = "get_settings"
    /\ failed_since_clear
    /\ settings_result.raised = ""
    /\ ~settings_result.hit
    /\ settings_result.settings.customgpt_api_key = <<"key">>
    /\ settings_cache = FilledCache(settings_result.settings)

=============================================================================
